---- MODULE Spec2Model ----
(***************************************************************************)
(* A model of gemini-exporter's three repair tools:                        *)
(*   fix_thinking_duplicates.py   (contains_thinking_stage_text,           *)
(*                                 clean_exchange, clean_file, main)       *)
(*   diagnose_thinking_blocks.py  (analyze_file, main)                     *)
(*   recover_thinking_from_html.py (extract_thinking_from_html,            *)
(*                                 extract_stages_from_container,          *)
(*                                 recover_thinking_blocks, main)          *)
(*                                                                         *)
(* A Python str is a sequence of one-character strings.  A JSON object is  *)
(* a record; a key the code reads with .get(key, default) and that may be  *)
(* missing is either a has_<key> flag beside the field (exchanges,         *)
(* messages, raw_html) or, where the default is the empty value of the     *)
(* field's type and the code cannot tell the two apart (text, stage_name,  *)
(* thinking_stages), the empty value itself.  The field uid of a message   *)
(* is the identity of the Python dict object (its position in the list as  *)
(* loaded); the code never reads it.                                       *)
(***************************************************************************)
EXTENDS Naturals, Sequences, FiniteSets, TLC

VARIABLES
  input,      \* SpecExchange: the export file on disk holding one exchange
  exchange,   \* SpecExchange: the exchange dict handed to clean_exchange
  ret,        \* SpecExchange: what clean_exchange returned
  stats,      \* SpecExchange: what analyze_file returned for the file on disk
  orig,       \* SpecFile: the export file as it was before any tool ran
  export,     \* SpecFile: the export file on disk
  hist,       \* SpecFile: the outcome of every clean_file call so far
  recovery,   \* SpecFile: the .recovered.json file
  tool,       \* SpecBatch: which tool's main() is running
  files,      \* SpecBatch: the files of the batch, in processing order
  cursor,     \* SpecBatch: index of the next file of the batch
  bpc,        \* SpecBatch: position of main()
  done,       \* SpecBatch: indexes of the files whose result was collected
  failed,     \* SpecBatch: indexes of the files reported and skipped
  container,  \* SpecSegment: the thinking container handed to the segmenter
  stages,     \* SpecSegment: what extract_stages_from_container returned
  spc         \* SpecSegment: position of the segmenter run

exVars == <<input, exchange, ret, stats>>
fileVars == <<orig, export, hist, recovery>>
batchVars == <<tool, files, cursor, bpc, done, failed>>
segVars == <<container, stages, spc>>
vars == <<exVars, fileVars, batchVars, segVars>>

(***************************************************************************)
(* Bounds of the model.                                                    *)
(***************************************************************************)
MaxStages == 2
MaxMessages == 3
MaxExchanges == 2
MaxPasses == 2
MaxContainers == 2
MaxBlocks == 4
MaxFiles == 3

\* message_index as found in a file: position + offset.  The upstream
\* exporter's numbering is not part of this repository: offset 0 is a
\* numbering per exchange, a larger offset a numbering that runs on across
\* the exchanges of an export.
IndexOffsets == {0, 2}

\* all sequences over S of length at most n
RECURSIVE SeqsUpTo(_, _)
SeqsUpTo(S, n) ==
  IF n = 0 THEN {<<>>}
  ELSE LET shorter == SeqsUpTo(S, n - 1)
       IN  shorter \cup {Append(s, x) : s \in {t \in shorter : Len(t) = n - 1}, x \in S}

RECURSIVE SumSeq(_)
SumSeq(s) ==
  IF s = <<>> THEN 0 ELSE Head(s) + SumSeq(Tail(s))

(***************************************************************************)
(* Strings.                                                                *)
(***************************************************************************)
\* Python's  sub in s
Contains(sub, s) ==
  \E i \in 1..(Len(s) + 1) :
    /\ i + Len(sub) - 1 <= Len(s)
    /\ SubSeq(s, i, i + Len(sub) - 1) = sub

Whitespace == {" ", "\n"}

\* Python's str.strip()
RECURSIVE LStrip(_)
LStrip(s) ==
  IF s # <<>> /\ Head(s) \in Whitespace THEN LStrip(Tail(s)) ELSE s

RECURSIVE RStrip(_)
RStrip(s) ==
  IF s # <<>> /\ s[Len(s)] \in Whitespace THEN RStrip(SubSeq(s, 1, Len(s) - 1)) ELSE s

Strip(s) ==
  RStrip(LStrip(s))

(***************************************************************************)
(* The wire format: stages, messages, exchanges.                           *)
(***************************************************************************)
StageNames == {<<>>, <<"a">>, <<"a", "b">>}

Stage(name) ==
  [stage_name |-> name, text |-> <<"t">>]

StageSeqs ==
  SeqsUpTo({Stage(n) : n \in StageNames}, MaxStages)

\* "Ab" is a keyword and no stage name (case differs); "ba" holds the stage
\* name "a" only; "kab" holds a keyword and both stage names.
ResponseTexts == {<<>>, <<"A", "b">>, <<"b", "a">>, <<"k", "a", "b">>}

ThinkingMsg(ss) ==
  [message_type |-> "thinking", text |-> <<>>, thinking_stages |-> ss,
   message_index |-> 0, uid |-> 0]

ResponseMsg(t) ==
  [message_type |-> "assistant_response", text |-> t, thinking_stages |-> <<>>,
   message_index |-> 0, uid |-> 0]

UserMsg ==
  [message_type |-> "user", text |-> <<"q">>, thinking_stages |-> <<>>,
   message_index |-> 0, uid |-> 0]

\* the messages of a list as loaded: object identities and the file's indices
Loaded(msgs, offset) ==
  [i \in 1..Len(msgs) |-> [msgs[i] EXCEPT !.uid = i, !.message_index = offset + i - 1]]

Exchange(msgs) ==
  [has_messages |-> TRUE, messages |-> msgs]

NoMessagesExchange ==
  [has_messages |-> FALSE, messages |-> <<>>]

\* exchange.get('messages', [])
GetMessages(ex) ==
  IF ex.has_messages THEN ex.messages ELSE <<>>

ThinkingCount(msgs) ==
  Cardinality({i \in 1..Len(msgs) : msgs[i].message_type = "thinking"})

(***************************************************************************)
(* fix_thinking_duplicates.py                                              *)
(***************************************************************************)
\* the bug of looking at the first stage only
contains_thinking_stage_text_first(text, thinking_stages) ==
  IF text = <<>> \/ thinking_stages = <<>> THEN FALSE
  ELSE /\ thinking_stages[1].stage_name # <<>>
       /\ Contains(thinking_stages[1].stage_name, text)

contains_thinking_stage_text(text, thinking_stages) ==
  IF text = <<>> \/ thinking_stages = <<>> THEN FALSE
  ELSE \E k \in 1..Len(thinking_stages) :
         /\ thinking_stages[k].stage_name # <<>>
         /\ Contains(thinking_stages[k].stage_name, text)

\* lines 36-40: the first message of type thinking, 0 for None
FindThinking(messages) ==
  LET T == {i \in 1..Len(messages) : messages[i].message_type = "thinking"}
  IN  IF T = {} THEN 0 ELSE CHOOSE i \in T : \A j \in T : i <= j

\* the bug of numbering from 1
RenumberFromOne(cleaned_messages) ==
  [i \in 1..Len(cleaned_messages) |-> [cleaned_messages[i] EXCEPT !.message_index = i]]

\* lines 64-65
Renumber(cleaned_messages) ==
  [i \in 1..Len(cleaned_messages) |-> [cleaned_messages[i] EXCEPT !.message_index = i - 1]]

\* the bug of counting every response as removed
clean_exchange_counts_all(ex) ==
  LET messages == GetMessages(ex)
      t == FindThinking(messages)
  IN  IF t = 0 \/ messages[t].thinking_stages = <<>>
      THEN [kind |-> "bare", exchange |-> ex, removed_count |-> 0]
      ELSE LET thinking_stages == messages[t].thinking_stages
               Keep(msg) ==
                 ~ (/\ msg.message_type = "assistant_response"
                    /\ contains_thinking_stage_text(msg.text, thinking_stages))
               IsResponse(msg) == msg.message_type = "assistant_response"
           IN  [kind |-> "tuple",
                exchange |-> [has_messages |-> TRUE,
                              messages |-> Renumber(SelectSeq(messages, Keep))],
                removed_count |-> Len(SelectSeq(messages, IsResponse))]

\* the bug of blanking a duplicate response instead of removing it
clean_exchange_redacts(ex) ==
  LET messages == GetMessages(ex)
      t == FindThinking(messages)
  IN  IF t = 0 \/ messages[t].thinking_stages = <<>>
      THEN [kind |-> "bare", exchange |-> ex, removed_count |-> 0]
      ELSE LET thinking_stages == messages[t].thinking_stages
               Redact(msg) ==
                 IF /\ msg.message_type = "assistant_response"
                    /\ contains_thinking_stage_text(msg.text, thinking_stages)
                 THEN [msg EXCEPT !.text = <<>>]
                 ELSE msg
           IN  [kind |-> "tuple",
                exchange |-> [has_messages |-> TRUE,
                              messages |-> Renumber([i \in 1..Len(messages) |-> Redact(messages[i])])],
                removed_count |-> 0]

\* clean_exchange returns the bare exchange (kind "bare") at line 44 and the
\* pair (exchange, removed_count) (kind "tuple") at line 69; the exchange is
\* the caller's dict, changed in place.
clean_exchange(ex) ==
  LET messages == GetMessages(ex)
      t == FindThinking(messages)
  IN  IF t = 0 \/ messages[t].thinking_stages = <<>>
      THEN [kind |-> "bare", exchange |-> ex, removed_count |-> 0]
      ELSE LET thinking_stages == messages[t].thinking_stages
               Keep(msg) ==
                 ~ (/\ msg.message_type = "assistant_response"
                    /\ contains_thinking_stage_text(msg.text, thinking_stages))
               cleaned_messages == SelectSeq(messages, Keep)
           IN  [kind |-> "tuple",
                exchange |-> [has_messages |-> TRUE,
                              messages |-> Renumber(cleaned_messages)],
                removed_count |-> Len(messages) - Len(cleaned_messages)]

(***************************************************************************)
(* diagnose_thinking_blocks.py                                             *)
(***************************************************************************)
\* stand-ins, in the model's alphabet, for the phrases of lines 38-43
thinking_keywords == {<<"k">>, <<"A", "b">>}

NoStages == "Thinking message has no stages"
Duplicate == "Response contains duplicate thinking text"
Keywords == "Response has thinking keywords but no thinking message"

Issue(ex_idx, what, msg) ==
  [ex_idx |-> ex_idx, issue |-> what, uid |-> msg.uid]

EmptyStats ==
  [thinking_messages |-> 0, thinking_with_stages |-> 0, thinking_without_stages |-> 0,
   responses_with_thinking_text |-> 0, exchanges_with_thinking |-> 0,
   exchanges_without_thinking |-> 0, issues |-> <<>>]

StageNameList(ss) ==
  [i \in 1..Len(ss) |-> ss[i].stage_name]

\* lines 49-88, one message; acc is (has_thinking, thinking_stages, stats)
analyze_message(acc, ex_idx, msg) ==
  LET st == acc.stats IN
  IF msg.message_type = "thinking"
  THEN IF msg.thinking_stages # <<>>
       THEN [has_thinking |-> TRUE,
             thinking_stages |-> StageNameList(msg.thinking_stages),
             stats |-> [st EXCEPT !.thinking_messages = @ + 1,
                                  !.thinking_with_stages = @ + 1]]
       ELSE [acc EXCEPT !.has_thinking = TRUE,
                        !.stats = [st EXCEPT !.thinking_messages = @ + 1,
                                             !.thinking_without_stages = @ + 1,
                                             !.issues = Append(@, Issue(ex_idx, NoStages, msg))]]
  ELSE IF msg.message_type = "assistant_response"
  THEN IF acc.thinking_stages # <<>>
       THEN IF \E k \in 1..Len(acc.thinking_stages) :
                 /\ acc.thinking_stages[k] # <<>>
                 /\ Contains(acc.thinking_stages[k], msg.text)
            THEN [acc EXCEPT !.stats = [st EXCEPT !.responses_with_thinking_text = @ + 1,
                                                  !.issues = Append(@, Issue(ex_idx, Duplicate, msg))]]
            ELSE acc
       ELSE IF /\ \E kw \in thinking_keywords : Contains(kw, msg.text)
               /\ ~ acc.has_thinking
            THEN [acc EXCEPT !.stats = [st EXCEPT !.issues = Append(@, Issue(ex_idx, Keywords, msg))]]
            ELSE acc
  ELSE acc

RECURSIVE analyze_messages(_, _, _, _)
analyze_messages(acc, ex_idx, messages, k) ==
  IF k > Len(messages) THEN acc
  ELSE analyze_messages(analyze_message(acc, ex_idx, messages[k]), ex_idx, messages, k + 1)

\* lines 45-93, one exchange
analyze_exchange(st, ex_idx, ex) ==
  LET acc == analyze_messages([has_thinking |-> FALSE, thinking_stages |-> <<>>, stats |-> st],
                              ex_idx, GetMessages(ex), 1)
  IN  IF acc.has_thinking
      THEN [acc.stats EXCEPT !.exchanges_with_thinking = @ + 1]
      ELSE [acc.stats EXCEPT !.exchanges_without_thinking = @ + 1]

RECURSIVE analyze_exchanges(_, _, _)
analyze_exchanges(st, exchanges, i) ==
  IF i > Len(exchanges) THEN st
  ELSE analyze_exchanges(analyze_exchange(st, i - 1, exchanges[i]), exchanges, i + 1)

\* data.get('exchanges', [])
GetExchanges(data) ==
  IF data.has_exchanges THEN data.exchanges ELSE <<>>

analyze_file(data) ==
  analyze_exchanges(EmptyStats, GetExchanges(data), 1)

(***************************************************************************)
(* Export files.                                                           *)
(***************************************************************************)
ExportFile(exs, raw) ==
  [exists |-> TRUE, parsable |-> TRUE, has_exchanges |-> TRUE, exchanges |-> exs,
   message_count |-> SumSeq([i \in 1..Len(exs) |-> Len(GetMessages(exs[i]))]),
   has_raw_html |-> TRUE, raw_html |-> raw]

NoRawHtml(data) ==
  [data EXCEPT !.has_raw_html = FALSE, !.raw_html = <<>>]

NoExchanges(data) ==
  [data EXCEPT !.has_exchanges = FALSE, !.exchanges = <<>>]

IdleExchange ==
  /\ input = NoRawHtml(ExportFile(<<>>, <<>>))
  /\ exchange = NoMessagesExchange
  /\ ret = [kind |-> "none", removed_count |-> 0]
  /\ stats = [ran |-> FALSE, st |-> EmptyStats]

IdleFile ==
  /\ orig = NoRawHtml(ExportFile(<<>>, <<>>))
  /\ export = NoRawHtml(ExportFile(<<>>, <<>>))
  /\ hist = <<>>
  /\ recovery = [ran |-> FALSE, written |-> FALSE, recovered_thinking_blocks |-> <<>>,
                 recovery_stats |-> [total_found |-> 0, current_in_json |-> 0,
                                     newly_recovered |-> 0]]

IdleBatch ==
  /\ tool = "none"
  /\ files = <<>>
  /\ cursor = 1
  /\ bpc = "idle"
  /\ done = <<>>
  /\ failed = {}

IdleSegment ==
  /\ container = <<>>
  /\ stages = <<>>
  /\ spc = "idle"

(***************************************************************************)
(* SpecExchange: one exchange of an export file, diagnosed by analyze_file *)
(* from the file on disk and cleaned by clean_exchange in memory.          *)
(***************************************************************************)
OtherMessages ==
  {ResponseMsg(t) : t \in ResponseTexts} \cup {UserMsg}

InsertAt(msgs, pos, msg) ==
  SubSeq(msgs, 1, pos) \o <<msg>> \o SubSeq(msgs, pos + 1, Len(msgs))

\* Data model: at most one thinking message per exchange, at any position.
MessageLists ==
  SeqsUpTo(OtherMessages, MaxMessages) \cup
  UNION {{InsertAt(rest, pos, ThinkingMsg(ss)) : pos \in 0..Len(rest), ss \in StageSeqs} :
         rest \in SeqsUpTo(OtherMessages, MaxMessages - 1)}

ExchangeInputs ==
  {NoMessagesExchange} \cup
  {Exchange(Loaded(msgs, off)) : msgs \in MessageLists, off \in IndexOffsets}

InitExchange ==
  /\ \E ex \in ExchangeInputs :
       /\ input = NoRawHtml(ExportFile(<<ex>>, <<>>))
       /\ exchange = ex
  /\ ret = [kind |-> "none", removed_count |-> 0]
  /\ stats = [ran |-> FALSE, st |-> EmptyStats]
  /\ IdleFile /\ IdleBatch /\ IdleSegment

CleanExchange ==
  /\ ret.kind = "none"
  /\ LET r == clean_exchange(exchange)
     IN  /\ exchange' = r.exchange
         /\ ret' = [kind |-> r.kind, removed_count |-> r.removed_count]
  /\ UNCHANGED <<input, stats, fileVars, batchVars, segVars>>

AnalyzeFile ==
  /\ ~ stats.ran
  /\ stats' = [ran |-> TRUE, st |-> analyze_file(input)]
  /\ UNCHANGED <<input, exchange, ret, fileVars, batchVars, segVars>>

NextExchange ==
  CleanExchange \/ AnalyzeFile

SpecExchange ==
  InitExchange /\ [][NextExchange]_vars

\* the exchange as it is in the file, and what became of it
InputMessages == GetMessages(input.exchanges[1])

KeptUids == {exchange.messages[i].uid : i \in 1..Len(exchange.messages)}

RemovedUids == {InputMessages[i].uid : i \in 1..Len(InputMessages)} \ KeptUids

ResponseUids ==
  {i \in 1..Len(InputMessages) : InputMessages[i].message_type = "assistant_response"}

\* s holds sub as a verbatim, case-sensitive substring
IsSubstring(sub, s) ==
  \E i \in 0..Len(s) : \E j \in i..Len(s) : SubSeq(s, i + 1, j) = sub

\* the stage sequence of the exchange's thinking message, <<>> without one
InputStages ==
  LET T == {i \in 1..Len(InputMessages) : InputMessages[i].message_type = "thinking"}
  IN  IF T = {} THEN <<>> ELSE InputMessages[CHOOSE i \in T : TRUE].thinking_stages

NamesAStage(text) ==
  \E k \in 1..Len(InputStages) :
    /\ InputStages[k].stage_name # <<>>
    /\ IsSubstring(InputStages[k].stage_name, text)

\* C1: when the thinking message has stages, clean_exchange removes a
\* response if and only if its text holds the non-empty name of one of the
\* stages, wherever the response sits; nothing but responses is removed.
C1_RemovedIffNamesStage ==
  (ret.kind # "none" /\ InputStages # <<>>) =>
     /\ RemovedUids \subseteq ResponseUids
     /\ \A i \in ResponseUids : (i \in RemovedUids) <=> NamesAStage(InputMessages[i].text)

\* a response ahead of the thinking message is removed for the name of the
\* second stage (the first has no name), another response is kept
C1_Witness ==
  /\ ret.kind = "tuple"
  /\ Len(InputStages) = 2 /\ InputStages[1].stage_name = <<>>
  /\ \E i \in RemovedUids : \E j \in 1..Len(InputMessages) :
       i < j /\ InputMessages[j].message_type = "thinking"
  /\ \E i \in ResponseUids : i \in KeptUids /\ InputMessages[i].text # <<>>

Contiguous(msgs) ==
  \A i \in 1..Len(msgs) : msgs[i].message_index = i - 1

\* C8 as claimed: after clean_exchange, with or without a thinking message,
\* the messages carry message_index 0, 1, ..., n-1.
C8_AlwaysContiguous ==
  ret.kind # "none" => Contiguous(GetMessages(exchange))

\* C8 amended: clean_exchange renumbers exactly when the thinking message has
\* stages (it then returns the pair); otherwise it returns the exchange as it
\* was, message_index values included.
C8_ContiguousWhenThinkingHasStages ==
  /\ (ret.kind # "none" /\ InputStages # <<>>) =>
        ret.kind = "tuple" /\ Contiguous(GetMessages(exchange))
  /\ (ret.kind # "none" /\ InputStages = <<>>) =>
        ret.kind = "bare" /\ exchange = input.exchanges[1]

\* nothing is removed, and indices that did not start at 0 now do
C8_Witness ==
  /\ ret.kind = "tuple" /\ ret.removed_count = 0
  /\ Len(InputMessages) = MaxMessages
  /\ ~ Contiguous(InputMessages)
  /\ Contiguous(exchange.messages)

IssueUids(what) ==
  {stats.st.issues[i].uid : i \in {j \in 1..Len(stats.st.issues) : stats.st.issues[j].issue = what}}

\* C7: analyze_file reports "thinking keywords but no thinking message" for
\* a response only if the exchange holds no thinking message at all.
C7_KeywordsOnlyWithoutThinking ==
  (stats.ran /\ IssueUids(Keywords) # {}) => ThinkingCount(InputMessages) = 0

\* C10: analyze_file reports as duplicates exactly the responses that
\* clean_exchange removes.
C10_SameDecision ==
  (stats.ran /\ ret.kind # "none") =>
     /\ IssueUids(Duplicate) = RemovedUids
     /\ stats.st.responses_with_thinking_text = Cardinality(RemovedUids)

(***************************************************************************)
(* recover_thinking_from_html.py: the segmenter.                           *)
(*                                                                         *)
(* BeautifulSoup is outside the repository.  A container is the list that  *)
(* container.find_all(['p', 'div']) returns, an element the list of its    *)
(* text pieces in document order, each piece inside or outside a           *)
(* <strong>/<b> tag.                                                       *)
(***************************************************************************)
Piece(s, bold) ==
  [s |-> s, bold |-> bold]

RECURSIVE JoinStripped(_)
JoinStripped(pieces) ==
  IF pieces = <<>> THEN <<>> ELSE Strip(Head(pieces).s) \o JoinStripped(Tail(pieces))

\* el.get_text(strip=True): every piece stripped, the empty ones left out
GetText(el) ==
  JoinStripped(el)

\* el.find(['strong', 'b']): the first bold piece, 0 for None
FindBold(el) ==
  LET B == {i \in 1..Len(el) : el[i].bold}
  IN  IF B = {} THEN 0 ELSE CHOOSE i \in B : \A j \in B : i <= j

Separator == <<"\n", "\n">>

NoCurrentStage ==
  [stages |-> <<>>, has_current |-> FALSE, current |-> [stage_name |-> <<>>, text |-> <<>>]]

\* lines 75-76 and 91-92
SavedStages(acc) ==
  IF acc.has_current /\ Strip(acc.current.text) # <<>>
  THEN Append(acc.stages, acc.current)
  ELSE acc.stages

\* lines 85 and 88
AddToCurrent(acc, text) ==
  IF acc.has_current
  THEN [acc EXCEPT !.current.text = @ \o Separator \o text]
  ELSE acc

\* lines 61-88, one element
segment_element(acc, el) ==
  LET text == GetText(el)
      b == FindBold(el)
  IN  IF text = <<>> THEN acc
      ELSE IF b # 0
      THEN LET bold_text == Strip(el[b].s)
           IN  IF text = bold_text
               THEN [stages |-> SavedStages(acc), has_current |-> TRUE,
                     current |-> [stage_name |-> bold_text, text |-> <<>>]]
               ELSE AddToCurrent(acc, text)
      ELSE AddToCurrent(acc, text)

RECURSIVE segment_elements(_, _, _)
segment_elements(acc, elements, k) ==
  IF k > Len(elements) THEN acc
  ELSE segment_elements(segment_element(acc, elements[k]), elements, k + 1)

\* lines 95-96
StripTexts(ss) ==
  [i \in 1..Len(ss) |-> [ss[i] EXCEPT !.text = Strip(@)]]

\* the bug of leaving out lines 91-92
extract_stages_from_container_no_final(c) ==
  StripTexts(segment_elements(NoCurrentStage, c, 1).stages)

extract_stages_from_container(c) ==
  StripTexts(SavedStages(segment_elements(NoCurrentStage, c, 1)))

\* no text; bold but blank; the headers "H" and "G" (with blanks around it);
\* "Hx" that only begins in bold; the contents "x" and "y" (with an empty
\* bold tag after it)
Elements ==
  { <<>>,
    <<Piece(<<" ">>, TRUE)>>,
    <<Piece(<<"H">>, TRUE)>>,
    <<Piece(<<" ", "G">>, TRUE), Piece(<<" ">>, FALSE)>>,
    <<Piece(<<"H">>, TRUE), Piece(<<"x">>, FALSE)>>,
    <<Piece(<<"x", " ">>, FALSE)>>,
    <<Piece(<<"y">>, FALSE), Piece(<<>>, TRUE)>> }

(***************************************************************************)
(* SpecSegment: extract_stages_from_container on one container.            *)
(***************************************************************************)
InitSegment ==
  /\ container \in SeqsUpTo(Elements, MaxBlocks)
  /\ stages = <<>>
  /\ spc = "start"
  /\ IdleExchange /\ IdleFile /\ IdleBatch

Segment ==
  /\ spc = "start"
  /\ stages' = extract_stages_from_container(container)
  /\ spc' = "done"
  /\ UNCHANGED <<container, exVars, fileVars, batchVars>>

NextSegment ==
  Segment

SpecSegment ==
  InitSegment /\ [][NextSegment]_vars

\* the blocks of the container, by position
BlockText(i) == GetText(container[i])

IsHeaderBlock(i) ==
  /\ BlockText(i) # <<>>
  /\ \E b \in 1..Len(container[i]) :
       /\ container[i][b].bold
       /\ \A a \in 1..(b - 1) : ~ container[i][a].bold
       /\ Strip(container[i][b].s) = BlockText(i)

IsContentBlock(i) ==
  BlockText(i) # <<>> /\ ~ IsHeaderBlock(i)

\* the content blocks that follow header h before the next header
BodyBlocks(h) ==
  {i \in (h + 1)..Len(container) :
     /\ IsContentBlock(i)
     /\ \A j \in (h + 1)..i : ~ IsHeaderBlock(j)}

RECURSIVE JoinBlocks(_)
JoinBlocks(S) ==
  IF S = {} THEN <<>>
  ELSE LET last == CHOOSE i \in S : \A j \in S : j <= i
       IN  IF S = {last} THEN BlockText(last)
           ELSE JoinBlocks(S \ {last}) \o Separator \o BlockText(last)

EmittedHeaders ==
  {h \in 1..Len(container) : IsHeaderBlock(h) /\ BodyBlocks(h) # {}}

\* C6: the segmenter emits, in document order, one stage for each header
\* block that has content before the next header; its body is that content
\* joined by blank lines; no emitted body is empty.
C6_OneStagePerHeaderWithBody ==
  spc = "done" =>
     /\ Len(stages) = Cardinality(EmittedHeaders)
     /\ \A h \in EmittedHeaders :
          stages[Cardinality({g \in EmittedHeaders : g <= h})] =
            [stage_name |-> BlockText(h), text |-> JoinBlocks(BodyBlocks(h))]
     /\ \A k \in 1..Len(stages) : stages[k].text # <<>>

\* Scenario C's shape: content ahead of the first header, a header without a
\* body between two that have one
C6_Witness ==
  /\ spc = "done"
  /\ Len(container) = 4
  /\ IsContentBlock(1) /\ IsHeaderBlock(2) /\ IsHeaderBlock(3) /\ IsContentBlock(4)
  /\ Len(stages) = 1
  /\ stages[1].stage_name = BlockText(3)

(***************************************************************************)
(* fix_thinking_duplicates.py: clean_file.                                 *)
(***************************************************************************)
\* lines 82-86, one exchange.  Unpacking the bare exchange that
\* clean_exchange returns at line 44 into (cleaned_exchange, removed) raises:
\* ValueError unless the dict has two keys, and with two keys TypeError at
\* "removed > 0", removed being a key, a str.
clean_file_exchange(st, ex) ==
  LET r == clean_exchange(ex)
  IN  IF r.kind = "bare"
      THEN [st EXCEPT !.status = "raised"]
      ELSE [st EXCEPT !.exchanges = Append(@, r.exchange),
                      !.exchanges_cleaned = IF r.removed_count > 0 THEN @ + 1 ELSE @,
                      !.total_removed = @ + r.removed_count]

RECURSIVE clean_file_loop(_, _, _)
clean_file_loop(st, exchanges, i) ==
  IF i > Len(exchanges) \/ st.status = "raised" THEN st
  ELSE clean_file_loop(clean_file_exchange(st, exchanges[i]), exchanges, i + 1)

\* lines 89-92
TotalMessages(exchanges) ==
  SumSeq([i \in 1..Len(exchanges) |-> Len(GetMessages(exchanges[i]))])

\* clean_file on the contents of a file: status "raised" when an exception
\* leaves it (json.load at line 77, the unpacking at line 83), else "ok" with
\* the data written at line 106 and the pair returned at line 112
clean_file(file) ==
  IF ~ file.parsable
  THEN [status |-> "raised", data |-> file, exchanges_cleaned |-> 0, total_removed |-> 0]
  ELSE LET st == clean_file_loop([status |-> "ok", exchanges |-> <<>>,
                                  exchanges_cleaned |-> 0, total_removed |-> 0],
                                 GetExchanges(file), 1)
       IN  IF st.status = "raised"
           THEN [status |-> "raised", data |-> file, exchanges_cleaned |-> 0, total_removed |-> 0]
           ELSE [status |-> "ok",
                 data |-> [file EXCEPT !.exchanges = st.exchanges,
                                       !.message_count = TotalMessages(st.exchanges)],
                 exchanges_cleaned |-> st.exchanges_cleaned,
                 total_removed |-> st.total_removed]

(***************************************************************************)
(* recover_thinking_from_html.py: the recovery pass.                       *)
(*                                                                         *)
(* raw_html is the list of containers that the selectors of lines 28-32    *)
(* find in the parsed document.  raw_text (line 42) is left out.           *)
(***************************************************************************)
RECURSIVE extract_blocks(_, _, _)
extract_blocks(thinking_blocks, containers, i) ==
  IF i > Len(containers) THEN thinking_blocks
  ELSE LET ss == extract_stages_from_container(containers[i])
       IN  extract_blocks(IF ss # <<>>
                          THEN Append(thinking_blocks, [block_index |-> i - 1, stages |-> ss])
                          ELSE thinking_blocks,
                          containers, i + 1)

\* the bug of appending a block for every container, stages or not
extract_thinking_from_html_unfiltered(raw_html) ==
  [i \in 1..Len(raw_html) |->
     [block_index |-> i - 1, stages |-> extract_stages_from_container(raw_html[i])]]

extract_thinking_from_html(raw_html) ==
  extract_blocks(<<>>, raw_html, 1)

\* lines 123-127
CurrentThinking(data) ==
  SumSeq([i \in 1..Len(GetExchanges(data)) |->
            Len(SelectSeq(GetMessages(GetExchanges(data)[i]),
                          LAMBDA msg : msg.message_type = "thinking"
                                       /\ msg.thinking_stages # <<>>))])

NoRecovery ==
  [ran |-> FALSE, written |-> FALSE, recovered_thinking_blocks |-> <<>>,
   recovery_stats |-> [total_found |-> 0, current_in_json |-> 0, newly_recovered |-> 0]]

\* recover_thinking_blocks on the contents of a (parsable) file: what it
\* writes to the .recovered.json file, if anything
recover_thinking_blocks(data) ==
  IF ~ data.has_raw_html THEN [NoRecovery EXCEPT !.ran = TRUE]
  ELSE LET thinking_blocks == extract_thinking_from_html(data.raw_html)
           current_thinking == CurrentThinking(data)
       IN  IF Len(thinking_blocks) > current_thinking
           THEN [ran |-> TRUE, written |-> TRUE,
                 recovered_thinking_blocks |-> thinking_blocks,
                 recovery_stats |-> [total_found |-> Len(thinking_blocks),
                                     current_in_json |-> current_thinking,
                                     newly_recovered |-> Len(thinking_blocks) - current_thinking]]
           ELSE [NoRecovery EXCEPT !.ran = TRUE]

(***************************************************************************)
(* SpecFile: one export file, cleaned in place by clean_file (up to        *)
(* MaxPasses times) and read by recover_thinking_blocks.                   *)
(***************************************************************************)
OneNamed == <<Stage(<<"a">>)>>
SecondNamed == <<Stage(<<>>), Stage(<<"a", "b">>)>>

\* no messages field; no thinking message; a thinking message without
\* stages; a duplicate and a clean response; a duplicate ahead of the
\* thinking message; nothing to remove
FileExchanges ==
  { NoMessagesExchange,
    Exchange(Loaded(<<UserMsg, ResponseMsg(<<"k", "a", "b">>)>>, 0)),
    Exchange(Loaded(<<UserMsg, ThinkingMsg(<<>>), ResponseMsg(<<"k", "a", "b">>)>>, 0)),
    Exchange(Loaded(<<UserMsg, ThinkingMsg(OneNamed), ResponseMsg(<<"b", "a">>),
                      ResponseMsg(<<"A", "b">>)>>, 2)),
    Exchange(Loaded(<<ResponseMsg(<<"k", "a", "b">>), ThinkingMsg(SecondNamed),
                      ResponseMsg(<<"b", "a">>)>>, 0)),
    Exchange(Loaded(<<ThinkingMsg(OneNamed), ResponseMsg(<<"A", "b">>)>>, 0)) }

Header(c) == <<Piece(<<c>>, TRUE)>>
Content(c) == <<Piece(<<c>>, FALSE)>>

\* two headers with bodies; one header with a body; a header without one
FileContainers ==
  { <<Header("H"), Content("x"), Header("G"), Content("y")>>,
    <<Header("H"), Content("x")>>,
    <<Header("H")>> }

FileInputs ==
  LET withExchanges ==
        {ExportFile(exs, raw) : exs \in SeqsUpTo(FileExchanges, MaxExchanges),
                                raw \in SeqsUpTo(FileContainers, MaxContainers)}
      all == withExchanges \cup {NoExchanges(f) : f \in withExchanges}
  IN  all \cup {NoRawHtml(f) : f \in all}

InitFile ==
  /\ orig \in FileInputs
  /\ export = orig
  /\ hist = <<>>
  /\ recovery = NoRecovery
  /\ IdleExchange /\ IdleBatch /\ IdleSegment

CleanFile ==
  /\ Len(hist) < MaxPasses
  /\ LET r == clean_file(export)
     IN  /\ export' = r.data
         /\ hist' = Append(hist, [status |-> r.status,
                                  exchanges_cleaned |-> r.exchanges_cleaned,
                                  total_removed |-> r.total_removed,
                                  after |-> r.data])
  /\ UNCHANGED <<orig, recovery, exVars, batchVars, segVars>>

RecoverThinkingBlocks ==
  /\ ~ recovery.ran
  /\ recovery' = recover_thinking_blocks(export)
  /\ UNCHANGED <<orig, export, hist, exVars, batchVars, segVars>>

NextFile ==
  CleanFile \/ RecoverThinkingBlocks

SpecFile ==
  InitFile /\ [][NextFile]_vars

\* C2: the cleanup pass never ends in an error because of the export's
\* shape.
C2_PassNeverRaises ==
  \A k \in 1..Len(hist) : hist[k].status = "ok"

\* C3: a cleanup pass on the export that a completed pass produced removes
\* nothing and leaves the export, message_count included, as it was.
C3_SecondPassChangesNothing ==
  \A k \in 2..Len(hist) :
     hist[k - 1].status = "ok" =>
        /\ hist[k].status = "ok"
        /\ hist[k].total_removed = 0
        /\ hist[k].exchanges_cleaned = 0
        /\ hist[k].after = hist[k - 1].after

\* the first pass removed from two exchanges and kept a response
C3_Witness ==
  /\ Len(hist) = 2
  /\ hist[1].status = "ok" /\ hist[1].exchanges_cleaned = 2
  /\ hist[1].after.message_count < orig.message_count
  /\ \E i \in 1..Len(export.exchanges) : \E k \in 1..Len(export.exchanges[i].messages) :
       export.exchanges[i].messages[k].message_type = "assistant_response"

\* every (exchange, message) position of a file that holds a thinking message
ThinkingPositions(data) ==
  UNION {{<<i, k>> : k \in {m \in 1..Len(GetMessages(GetExchanges(data)[i])) :
                               GetMessages(GetExchanges(data)[i])[m].message_type = "thinking"}} :
         i \in 1..Len(GetExchanges(data))}

ThinkingAt(data, p) ==
  GetMessages(GetExchanges(data)[p[1]])[p[2]]

RECURSIVE SumOver(_, _)
SumOver(S, f) ==
  IF S = {} THEN 0
  ELSE LET x == CHOOSE y \in S : TRUE IN f[x] + SumOver(S \ {x}, f)

\* the stages already present across all thinking messages of the export
StagesInExport ==
  SumOver(ThinkingPositions(export),
          [p \in ThinkingPositions(export) |-> Len(ThinkingAt(export, p).thinking_stages)])

\* the stages recoverable from the raw document
StagesInRaw ==
  SumOver(1..Len(export.raw_html),
          [i \in 1..Len(export.raw_html) |->
             Len(extract_stages_from_container(export.raw_html[i]))])

\* the containers of the raw document that yield a stage
BlocksInRaw ==
  Cardinality({i \in 1..Len(export.raw_html) :
                 extract_stages_from_container(export.raw_html[i]) # <<>>})

\* the thinking messages of the export that have stages
ThinkingWithStages ==
  Cardinality({p \in ThinkingPositions(export) : ThinkingAt(export, p).thinking_stages # <<>>})

\* C5 as claimed: the recovery pass writes a record exactly when the raw
\* document holds more stages than the export's thinking messages, and
\* newly_recovered is the difference of the two stage counts (2 for two
\* headers with bodies against no stage in the export).
C5_CountsStages ==
  (recovery.ran /\ export.has_raw_html) =>
     /\ recovery.written <=> StagesInRaw > StagesInExport
     /\ recovery.written =>
          /\ recovery.recovery_stats.total_found = StagesInRaw
          /\ recovery.recovery_stats.current_in_json = StagesInExport
          /\ recovery.recovery_stats.newly_recovered + StagesInExport = StagesInRaw

\* C5 amended: the counts are of thinking blocks, not of stages: a record is
\* written exactly when the raw document holds more containers that yield a
\* stage than the export holds thinking messages with stages, and
\* newly_recovered = total_found - current_in_json is the difference of
\* these two counts.
C5_CountsBlocks ==
  (recovery.ran /\ export.has_raw_html) =>
     /\ recovery.written <=> BlocksInRaw > ThinkingWithStages
     /\ recovery.written =>
          /\ recovery.recovery_stats.total_found = BlocksInRaw
          /\ recovery.recovery_stats.current_in_json = ThinkingWithStages
          /\ recovery.recovery_stats.newly_recovered + ThinkingWithStages = BlocksInRaw
          /\ Len(recovery.recovered_thinking_blocks) = BlocksInRaw

\* Scenario B: one container whose two headers have bodies, after a
\* container that yields nothing, against a thinking message without
\* stages: newly_recovered is 1
C5_Witness ==
  /\ recovery.written
  /\ StagesInRaw = 2 /\ StagesInExport = 0
  /\ Len(export.raw_html) = 2
  /\ ThinkingPositions(export) # {}
  /\ recovery.recovery_stats.newly_recovered = 1
  /\ recovery.recovered_thinking_blocks[1].block_index = 1

\* message k of the new list is message uid of the old one, message_index aside
SameMessage(new, old) ==
  /\ new.uid \in 1..Len(old)
  /\ [new EXCEPT !.message_index = old[new.uid].message_index] = old[new.uid]

\* C9: against the export as first loaded, the tools only ever removed whole
\* assistant_response messages and rewrote message_index and message_count:
\* every other message is retained, every retained message is as it was
\* (stages and text included), in the same order, and the raw document and
\* the exchange list are as they were; recovered stages are in the recovery
\* record only.
C9_OnlyWholeResponsesRemoved ==
  /\ export.has_exchanges = orig.has_exchanges
  /\ export.has_raw_html = orig.has_raw_html
  /\ export.raw_html = orig.raw_html
  /\ Len(export.exchanges) = Len(orig.exchanges)
  /\ \A i \in 1..Len(orig.exchanges) :
       LET new == GetMessages(export.exchanges[i])
           old == GetMessages(orig.exchanges[i])
       IN  /\ export.exchanges[i].has_messages = orig.exchanges[i].has_messages
           /\ \A k \in 1..Len(new) : SameMessage(new[k], old)
           /\ \A k \in 1..Len(new) : \A l \in 1..Len(new) :
                k < l => new[k].uid < new[l].uid
           /\ \A u \in 1..Len(old) :
                old[u].message_type # "assistant_response" =>
                   \E k \in 1..Len(new) : new[k].uid = u

\* a response was removed, one was retained behind it, and a recovery record
\* was written
C9_Witness ==
  /\ Len(hist) > 0 /\ hist[1].status = "ok" /\ hist[1].total_removed > 0
  /\ recovery.written
  /\ \E i \in 1..Len(export.exchanges) :
       /\ Len(export.exchanges[i].messages) < Len(orig.exchanges[i].messages)
       /\ \E k \in 1..Len(export.exchanges[i].messages) :
            /\ export.exchanges[i].messages[k].message_type = "assistant_response"
            /\ export.exchanges[i].messages[k].uid > k

(***************************************************************************)
(* SpecBatch: main() of each tool over a batch of files.                   *)
(*                                                                         *)
(* done holds what main() collects for each file that was processed       *)
(* (all_stats of diagnose, the addends of fix's totals, the record that    *)
(* recover wrote), failed the files for which it printed an error and      *)
(* went on.  fix runs with --in-place.                                     *)
(***************************************************************************)
MissingFile ==
  [NoRawHtml(ExportFile(<<>>, <<>>)) EXCEPT !.exists = FALSE, !.parsable = FALSE]

UnparsableFile ==
  [NoRawHtml(ExportFile(<<>>, <<>>)) EXCEPT !.parsable = FALSE]

\* a file that is not there, one that is not JSON, an export that
\* clean_file cleans, an export with an exchange without thinking message
BatchFiles ==
  { MissingFile,
    UnparsableFile,
    ExportFile(<<Exchange(Loaded(<<ThinkingMsg(OneNamed), ResponseMsg(<<"b", "a">>)>>, 0))>>,
               <<<<Header("H"), Content("x")>>>>),
    NoRawHtml(ExportFile(<<Exchange(Loaded(<<UserMsg, ResponseMsg(<<"k">>)>>, 0))>>, <<>>)) }

Tools == {"diagnose", "fix", "recover"}

\* diagnose takes its files from glob.glob (line 164): they all exist
InitBatch ==
  /\ tool \in Tools
  /\ files \in SeqsUpTo(BatchFiles, MaxFiles)
  /\ tool = "diagnose" => \A i \in 1..Len(files) : files[i].exists
  /\ cursor = 1
  /\ bpc = "loop"
  /\ done = <<>>
  /\ failed = {}
  /\ IdleExchange /\ IdleFile /\ IdleSegment

\* diagnose_thinking_blocks.py lines 173-177: nothing catches what
\* analyze_file raises (json.load, line 20)
DiagnoseFile ==
  /\ tool = "diagnose" /\ bpc = "loop" /\ cursor <= Len(files)
  /\ IF files[cursor].parsable
     THEN /\ done' = Append(done, [file |-> cursor, result |-> analyze_file(files[cursor])])
          /\ cursor' = cursor + 1
          /\ bpc' = bpc
     ELSE /\ bpc' = "aborted"
          /\ UNCHANGED <<done, cursor>>
  /\ UNCHANGED <<tool, files, failed, exVars, fileVars, segVars>>

\* diagnose_thinking_blocks.py lines 166-168 and 179-188
DiagnoseReport ==
  /\ tool = "diagnose" /\ bpc = "loop" /\ cursor > Len(files)
  /\ bpc' = "finished"
  /\ UNCHANGED <<tool, files, cursor, done, failed, exVars, fileVars, segVars>>

\* fix_thinking_duplicates.py lines 142-162
FixFile ==
  /\ tool = "fix" /\ bpc = "loop" /\ cursor <= Len(files)
  /\ IF files[cursor].exists /\ clean_file(files[cursor]).status = "ok"
     THEN /\ done' = Append(done, [file |-> cursor,
                                   result |-> <<clean_file(files[cursor]).exchanges_cleaned,
                                                clean_file(files[cursor]).total_removed>>])
          /\ files' = [files EXCEPT ![cursor] = clean_file(files[cursor]).data]
          /\ failed' = failed
     ELSE /\ failed' = failed \cup {cursor}
          /\ UNCHANGED <<done, files>>
  /\ cursor' = cursor + 1
  /\ UNCHANGED <<tool, bpc, exVars, fileVars, segVars>>

\* fix_thinking_duplicates.py lines 164-168
FixTotals ==
  /\ tool = "fix" /\ bpc = "loop" /\ cursor > Len(files)
  /\ bpc' = "finished"
  /\ UNCHANGED <<tool, files, cursor, done, failed, exVars, fileVars, segVars>>

\* recover_thinking_from_html.py lines 178-187; open and json.load (lines
\* 107-108) raise for a file that is missing or is not JSON
RecoverFile ==
  /\ tool = "recover" /\ bpc = "loop" /\ cursor <= Len(files)
  /\ IF files[cursor].exists /\ files[cursor].parsable
     THEN /\ done' = Append(done, [file |-> cursor,
                                   result |-> recover_thinking_blocks(files[cursor])])
          /\ failed' = failed
     ELSE /\ failed' = failed \cup {cursor}
          /\ done' = done
  /\ cursor' = cursor + 1
  /\ UNCHANGED <<tool, files, bpc, exVars, fileVars, segVars>>

RecoverEnd ==
  /\ tool = "recover" /\ bpc = "loop" /\ cursor > Len(files)
  /\ bpc' = "finished"
  /\ UNCHANGED <<tool, files, cursor, done, failed, exVars, fileVars, segVars>>

NextBatch ==
  DiagnoseFile \/ DiagnoseReport \/ FixFile \/ FixTotals \/ RecoverFile \/ RecoverEnd

SpecBatch ==
  InitBatch /\ [][NextBatch]_vars

\* C4: in every tool a file that fails is reported and skipped: the batch is
\* never abandoned, and main() ends with every file either collected or
\* reported.
C4_FailureDoesNotAbortBatch ==
  /\ bpc # "aborted"
  /\ bpc = "finished" =>
       {done[i].file : i \in 1..Len(done)} \cup failed = 1..Len(files)

====
